---- MODULE Spec2Model ----
(***************************************************************************)
(* Model of the templated-communication system: the Template Store         *)
(* (ConfigManager), the Placeholder Renderer and Response Pipeline          *)
(* (ResponseProcessor) and the Generation Client (CommunicationEngine).     *)
(*                                                                         *)
(* Text is a sequence of one-character strings.  A Python dict is a        *)
(* sequence of <<key, value>> pairs in insertion order.  A float is a      *)
(* record [n, d] standing for n / d, d a power of ten.                     *)
(***************************************************************************)
EXTENDS Integers, Sequences, FiniteSets, TLC

VARIABLES
    source,             \* the three configuration documents on disk
    cached,             \* ConfigManager._templates/_standard_responses/_company_config
    reads,              \* per table: reads of the source since the last reload
    loads,              \* per table: tables loaded from the source since the last reload
    served,             \* per table: an access since the last reload was answered from the cache
    rets,               \* per table: values returned by accesses since the last reload
    pc,                 \* position of the current generate_response run
    args,               \* arguments of the current generate_response run
    standard_response,  \* local of generate_response
    generated_response, \* local of generate_response
    calls,              \* calls made to the Generation Client in this run
    api,                \* requests sent to the external service in this run
    result,             \* the record generate_response returned
    error,              \* the exception generate_response raised
    rin,                \* renderer inputs  (body, customer_data, company_info)
    rout,               \* renderer outputs (first render, render of that output)
    raw,                \* a reply of the service to the comparison prompt
    parsed,             \* the number calculate_deviation_percentage made of it
    orch,               \* the orchestrator object: "none", "ready" or "failed"
    cred,               \* the credential its construction was given
    req,                \* the entry point being served, "" when none
    ui,                 \* the prompts of the current run and what was typed
    invocations,        \* calls of generate_response by the current request
    ended,              \* how the last request ended
    cfgfailed           \* some earlier request ended on a configuration error

vars == <<source, cached, reads, loads, served, rets, pc, args, standard_response,
          generated_response, calls, api, result, error, rin, rout, raw, parsed,
          orch, cred, req, ui, invocations, ended, cfgfailed>>

storeVars == <<source, cached, reads, loads, served, rets>>
pipeVars  == <<pc, args, standard_response, generated_response, calls, api, result, error>>
renderVars == <<rin, rout>>
parseVars == <<raw, parsed>>
orchVars == <<orch, cred, req, ui, invocations, ended, cfgfailed>>

(***************************************************************************)
(* Bounds                                                                  *)
(***************************************************************************)
MaxReads == 2
MaxBodyLen == 6
MaxReplyLen == 4

(***************************************************************************)
(* Python string built-ins used by the code                                *)
(***************************************************************************)
LowerLetters == {"a", "b", "c", "d", "e", "f", "g", "h", "i", "j", "k", "l", "m",
                 "n", "o", "p", "q", "r", "s", "t", "u", "v", "w", "x", "y", "z"}
UpperLetters == {"A", "B", "C", "D", "E", "F", "G", "H", "I", "J", "K", "L", "M",
                 "N", "O", "P", "Q", "R", "S", "T", "U", "V", "W", "X", "Y", "Z"}
LowerSeq == <<"a", "b", "c", "d", "e", "f", "g", "h", "i", "j", "k", "l", "m",
              "n", "o", "p", "q", "r", "s", "t", "u", "v", "w", "x", "y", "z">>
UpperSeq == <<"A", "B", "C", "D", "E", "F", "G", "H", "I", "J", "K", "L", "M",
              "N", "O", "P", "Q", "R", "S", "T", "U", "V", "W", "X", "Y", "Z">>
Whitespace == {" ", "\n", "\t"}
Digits == {"0", "1", "2", "3", "4", "5", "6", "7", "8", "9"}

IndexOf(c, seq) == CHOOSE i \in 1..Len(seq) : seq[i] = c
Upper(c) == IF c \in LowerLetters THEN UpperSeq[IndexOf(c, LowerSeq)] ELSE c
Lower(c) == IF c \in UpperLetters THEN LowerSeq[IndexOf(c, UpperSeq)] ELSE c

\* s[i..] starts with old
MatchAt(s, i, old) ==
    /\ i + Len(old) - 1 <= Len(s)
    /\ \A j \in 1..Len(old) : s[i + j - 1] = old[j]

\* str.replace(old, new): every non-overlapping occurrence, left to right,
\* the inserted text is not scanned again.  old is never empty here.
RECURSIVE ReplaceFrom(_, _, _, _)
ReplaceFrom(s, i, old, new) ==
    IF i > Len(s) THEN <<>>
    ELSE IF MatchAt(s, i, old) THEN new \o ReplaceFrom(s, i + Len(old), old, new)
    ELSE <<s[i]>> \o ReplaceFrom(s, i + 1, old, new)

\* only the first occurrence replaced, as str.replace(old, new, 1)
RECURSIVE FirstFrom(_, _, _, _)
FirstFrom(s, i, old, new) ==
    IF i > Len(s) THEN <<>>
    ELSE IF MatchAt(s, i, old) THEN new \o SubSeq(s, i + Len(old), Len(s))
    ELSE <<s[i]>> \o FirstFrom(s, i + 1, old, new)

Replace_FirstOnly(s, old, new) == FirstFrom(s, 1, old, new)

Replace(s, old, new) == ReplaceFrom(s, 1, old, new)

\* str.title(): a cased character is upper-cased when the previous character
\* is not cased and lower-cased when it is.
RECURSIVE TitleFrom(_, _, _)
TitleFrom(s, i, prevCased) ==
    IF i > Len(s) THEN <<>>
    ELSE LET c == s[i]
             cased == c \in LowerLetters \cup UpperLetters
             o == IF ~cased THEN c ELSE IF prevCased THEN Lower(c) ELSE Upper(c)
         IN <<o>> \o TitleFrom(s, i + 1, cased)

Title(s) == TitleFrom(s, 1, FALSE)

\* str.strip(): leading and trailing whitespace removed
RECURSIVE LStrip(_)
LStrip(s) == IF s # <<>> /\ Head(s) \in Whitespace THEN LStrip(Tail(s)) ELSE s
RECURSIVE RStrip(_)
RStrip(s) == IF s # <<>> /\ s[Len(s)] \in Whitespace
             THEN RStrip(SubSeq(s, 1, Len(s) - 1)) ELSE s
Strip(s) == RStrip(LStrip(s))

\* all sequences over S of length at most n
SeqsUpTo(S, n) == UNION {[1..k -> S] : k \in 0..n}

(***************************************************************************)
(* Placeholder Renderer: ResponseProcessor.prepare_standard_response       *)
(***************************************************************************)
\* f"[{field.replace('_', ' ').title()}]"
Placeholder(field) == <<"[">> \o Title(Replace(field, <<"_">>, <<" ">>)) \o <<"]">>

\* one of the two for-loops over dict.items()
RECURSIVE ReplaceFields(_, _)
ReplaceFields(text, items) ==
    IF items = <<>> THEN text
    ELSE ReplaceFields(Replace(text, Placeholder(items[1][1]), items[1][2]), Tail(items))

\* customer data first, company info second
Render(body, customer_data, company_info) ==
    ReplaceFields(ReplaceFields(body, customer_data), company_info)

(***************************************************************************)
(* Python dicts                                                            *)
(***************************************************************************)
DictKeys(d) == {d[i][1] : i \in 1..Len(d)}
DictGet(d, k) == d[CHOOSE i \in 1..Len(d) : d[i][1] = k][2]

NoneVal == [kind |-> "None", doc |-> <<>>]
Dict(d) == [kind |-> "dict", doc |-> d]

(***************************************************************************)
(* Template Store: ConfigManager                                           *)
(***************************************************************************)
Tables == {"templates", "standard_responses", "company_config"}

ConfigNotFoundError == "FileNotFoundError: Config file not found"
ConfigParseError    == "ValueError: Invalid JSON in config file"

\* the documents a configuration file may hold
StandardResponsesA ==
    << <<"customer_inquiry_response",
         <<"D", "e", "a", "r", " ", "[", "N", "a", "m", "e", "]", ",", " ",
           "c", "a", "l", "l", " ", "[", "P", "h", "o", "n", "e", "]">> >>,
       <<"claim_denial_notification",
         <<"[", "N", "a", "m", "e", "]", ":", " ", "d", "e", "n", "i", "e", "d">> >> >>
StandardResponsesB ==
    << <<"customer_inquiry_response",
         <<"H", "i", " ", "[", "N", "a", "m", "e", "]">> >> >>
TemplatesA ==
    << <<"customer_inquiry_response", <<"i", "n", "q">> >>,
       <<"claim_denial_notification", <<"d", "e", "n", "y">> >> >>
CompanyConfigA == << <<"company_name", <<"A", "c", "m", "e">> >> >>

\* the keys of the dict get_department_info returns
K_company_name == <<"c", "o", "m", "p", "a", "n", "y", "_", "n", "a", "m", "e">>
K_company_type == <<"c", "o", "m", "p", "a", "n", "y", "_", "t", "y", "p", "e">>
K_company_address == <<"c", "o", "m", "p", "a", "n", "y", "_", "a", "d", "d", "r", "e", "s", "s">>
K_company_website == <<"c", "o", "m", "p", "a", "n", "y", "_", "w", "e", "b", "s", "i", "t", "e">>
K_company_phone == <<"c", "o", "m", "p", "a", "n", "y", "_", "p", "h", "o", "n", "e">>
K_company_email == <<"c", "o", "m", "p", "a", "n", "y", "_", "e", "m", "a", "i", "l">>
K_department == <<"d", "e", "p", "a", "r", "t", "m", "e", "n", "t">>
K_representative_name == <<"r", "e", "p", "r", "e", "s", "e", "n", "t", "a", "t", "i", "v", "e", "_", "n", "a", "m", "e">>
K_contact_phone == <<"c", "o", "n", "t", "a", "c", "t", "_", "p", "h", "o", "n", "e">>
K_contact_email == <<"c", "o", "n", "t", "a", "c", "t", "_", "e", "m", "a", "i", "l">>
K_hours == <<"h", "o", "u", "r", "s">>

\* a company profile with two departments, one of them without a name and
\* contact entries
CompanyConfigB ==
    << <<"company_name", <<"A", "c", "m", "e">> >>,
       <<"company_phone", <<"5", "5", "5">> >>,
       <<"departments",
         << <<"billing",
              << <<K_department, <<"B", "i", "l", "l", "i", "n", "g">> >>,
                 <<K_representative_name, <<"B", "o">> >>,
                 <<K_contact_phone, <<"5", "5", "6">> >>,
                 <<K_contact_email, <<"b", "@", "x">> >> >> >>,
            <<"claims",
              << <<K_hours, <<"9", "-", "5">> >> >> >> >> >> >>

Documents(t) ==
    IF t = "standard_responses" THEN {StandardResponsesA, StandardResponsesB}
    ELSE IF t = "templates" THEN {TemplatesA}
    ELSE {CompanyConfigA}

\* what a configuration file can be: absent, not JSON, the JSON value null,
\* or a JSON object
Contents(t) ==
    {[kind |-> k, doc |-> <<>>] : k \in {"missing", "malformed", "null"}}
        \cup {[kind |-> "object", doc |-> d] : d \in Documents(t)}

\* _load_json_file: open, json.load; the two wrapped exceptions
_load_json_file(content) ==
    IF content.kind = "missing" THEN [raised |-> ConfigNotFoundError, value |-> NoneVal]
    ELSE IF content.kind = "malformed" THEN [raised |-> ConfigParseError, value |-> NoneVal]
    ELSE IF content.kind = "null" THEN [raised |-> "", value |-> NoneVal]
    ELSE [raised |-> "", value |-> Dict(content.doc)]

\* whether _load_json_file got as far as reading the file
Opened(content) == content.kind # "missing"

\* the loaded table is returned but never stored
Property_NoCache(t) ==
    IF cached[t] = NoneVal
    THEN LET r == _load_json_file(source[t])
         IN [raised |-> r.raised, value |-> r.value,
             read |-> Opened(source[t]), cache |-> cached[t]]
    ELSE [raised |-> "", value |-> cached[t], read |-> FALSE, cache |-> cached[t]]

\* the three lazily loading properties: templates, standard_responses,
\* company_config.  raised: the exception, value: what the property returns,
\* read: whether the source was read, cache: the cached value afterwards.
Property(t) ==
    IF cached[t] = NoneVal
    THEN LET r == _load_json_file(source[t])
         IN [raised |-> r.raised, value |-> r.value,
             read |-> Opened(source[t]),
             cache |-> IF r.raised = "" THEN r.value ELSE cached[t]]
    ELSE [raised |-> "", value |-> cached[t], read |-> FALSE, cache |-> cached[t]]

\* the effect of one property access on the store
StoreAfter(t, acc) ==
    /\ acc.read => reads[t] < MaxReads
    /\ cached' = [cached EXCEPT ![t] = acc.cache]
    /\ reads' = [reads EXCEPT ![t] = IF acc.read THEN @ + 1 ELSE @]
    /\ loads' = [loads EXCEPT ![t] = IF acc.read /\ acc.raised = "" /\ acc.value # NoneVal
                                     THEN @ + 1 ELSE @]
    /\ served' = [served EXCEPT ![t] = @ \/ (acc.raised = "" /\ ~acc.read)]
    /\ rets' = [rets EXCEPT ![t] = IF acc.raised = "" THEN @ \cup {acc.value} ELSE @]
    /\ UNCHANGED source

InitStore ==
    /\ source \in [Tables -> UNION {Contents(t) : t \in Tables}]
    /\ \A t \in Tables : source[t] \in Contents(t)
    /\ cached = [t \in Tables |-> NoneVal]
    /\ reads = [t \in Tables |-> 0]
    /\ loads = [t \in Tables |-> 0]
    /\ served = [t \in Tables |-> FALSE]
    /\ rets = [t \in Tables |-> {}]

\* a caller reads one of the properties
Access(t) ==
    /\ pc = "idle"
    /\ StoreAfter(t, Property(t))
    /\ UNCHANGED <<pipeVars, renderVars, parseVars, orchVars>>

reload_configs ==
    /\ pc = "idle"
    /\ cached' = [t \in Tables |-> NoneVal]
    /\ reads' = [t \in Tables |-> 0]
    /\ loads' = [t \in Tables |-> 0]
    /\ served' = [t \in Tables |-> FALSE]
    /\ rets' = [t \in Tables |-> {}]
    /\ UNCHANGED <<source, pipeVars, renderVars, parseVars, orchVars>>

\* the environment rewrites, removes or creates a configuration file
EditSource(t) ==
    /\ pc = "idle"
    /\ \E c \in Contents(t) :
          /\ c # source[t]
          /\ source' = [source EXCEPT ![t] = c]
    /\ UNCHANGED <<cached, reads, loads, served, rets, pipeVars, renderVars, parseVars, orchVars>>

(***************************************************************************)
(* Generation Client: CommunicationEngine                                  *)
(***************************************************************************)
GenerationError == "Exception: Error generating communication"

deviation_tolerance_settings ==
    [strict   |-> [limit |-> 10,
                   instruction |-> "Follow the standard response EXACTLY. Deviation should be less than 10%."],
     minimal  |-> [limit |-> 25,
                   instruction |-> "Follow the standard response closely. Deviation should be less than 25%."],
     moderate |-> [limit |-> 50,
                   instruction |-> "Use the standard response as a strong guideline. Deviation should be less than 50%."],
     flexible |-> [limit |-> 70,
                   instruction |-> "Use the standard response as a foundation. Deviation can be up to 70%."]]

\* an unrecognized key falls back to the strict entry
ToleranceConfig_FallbackStrict(tolerance) ==
    IF tolerance \in DOMAIN deviation_tolerance_settings
    THEN deviation_tolerance_settings[tolerance]
    ELSE deviation_tolerance_settings["strict"]

\* deviation_tolerance_settings.get(tolerance, deviation_tolerance_settings["minimal"])
ToleranceConfig(tolerance) ==
    IF tolerance \in DOMAIN deviation_tolerance_settings
    THEN deviation_tolerance_settings[tolerance]
    ELSE deviation_tolerance_settings["minimal"]

get_deviation_tolerance_limit(tolerance) == ToleranceConfig(tolerance).limit

\* floats
Float(n, d) == [n |-> n, d |-> d]
Zero == Float(0, 1)
\* float <= int
LeqInt(x, k) == x.n <= k * x.d
\* float < int
LtInt(x, k) == x.n < k * x.d
\* float = float
FloatEq(x, y) == x.n * y.d = y.n * x.d

DigitSeq == <<"0", "1", "2", "3", "4", "5", "6", "7", "8", "9">>
DigitVal(c) == IndexOf(c, DigitSeq) - 1

\* end of the longest run of digits that starts at i (i - 1 when there is none)
RECURSIVE DigitsEnd(_, _)
DigitsEnd(s, i) ==
    IF i <= Len(s) /\ s[i] \in Digits THEN DigitsEnd(s, i + 1) ELSE i - 1

\* value of the digits s[i..j]
RECURSIVE DigitsValue(_, _, _)
DigitsValue(s, i, j) ==
    IF j < i THEN 0 ELSE DigitsValue(s, i, j - 1) * 10 + DigitVal(s[j])

RECURSIVE Pow10(_)
Pow10(k) == IF k = 0 THEN 1 ELSE 10 * Pow10(k - 1)

\* the pattern without its fraction part, r'(\d+)'
ParsePercentage_IntOnly(s) ==
    IF \A i \in 1..Len(s) : s[i] \notin Digits THEN Zero
    ELSE LET i == CHOOSE k \in 1..Len(s) :
                     s[k] \in Digits /\ \A m \in 1..(k - 1) : s[m] \notin Digits
         IN Float(DigitsValue(s, i, DigitsEnd(s, i)), 1)

\* re.search(r'(\d+(?:\.\d+)?)', result), float(group(1)) or 0.0
ParsePercentage(s) ==
    IF \A i \in 1..Len(s) : s[i] \notin Digits THEN Zero
    ELSE LET i == CHOOSE k \in 1..Len(s) :
                     s[k] \in Digits /\ \A m \in 1..(k - 1) : s[m] \notin Digits
             j == DigitsEnd(s, i)
             hasFrac == /\ j + 2 <= Len(s)
                        /\ s[j + 1] = "."
                        /\ s[j + 2] \in Digits
             k == IF hasFrac THEN DigitsEnd(s, j + 2) ELSE j
         IN IF hasFrac
            THEN Float(DigitsValue(s, i, j) * Pow10(k - j - 1) + DigitsValue(s, j + 2, k),
                       Pow10(k - j - 1))
            ELSE Float(DigitsValue(s, i, j), 1)

\* the replies of the external service to the personalisation prompt
PersonalizeTexts ==
    { <<" ", "D", "e", "a", "r", " ", "J", "o", "\n">>,
      <<"H", "i">> }

\* the replies of the external service to the comparison prompt
ScoreTexts ==
    { <<"8">>, <<"1", "8">>, <<"4", "0">>, <<"1", "0">>, <<"1", "1">>,
      <<"1", "0", ".", "5">>, <<" ", "2", "5", ".", "0", "\n">>,
      <<"D", "e", "v", "i", "a", "t", "i", "o", "n", ":", " ", "7", "3", "%">>,
      <<"7", "0", ".", "0", "1", " ", "o", "f", " ", "1", "0", "0">>,
      <<"1", "5", "0">>,
      <<"n", "/", "a">> }

\* outcome of one request: "raises", "none" (content is None) or "text"
Outcomes(texts) ==
    {[kind |-> k, content |-> <<>>] : k \in {"raises", "none"}}
        \cup {[kind |-> "text", content |-> t] : t \in texts}

\* the fallback fails closed: 100.0 instead of 0.0
DeviationOf_FailClosed(outcome) ==
    IF outcome.kind = "text" /\ \E i \in 1..Len(outcome.content) : outcome.content[i] \in Digits
    THEN ParsePercentage(Strip(outcome.content)) ELSE Float(100, 1)

\* calculate_deviation_percentage: the value returned for an outcome of the
\* request; every exception inside the try block gives 0.0
DeviationOf(outcome) ==
    IF outcome.kind = "text" THEN ParsePercentage(Strip(outcome.content)) ELSE Zero

(***************************************************************************)
(* Response Pipeline: ResponseProcessor.generate_response                  *)
(***************************************************************************)
TemplateNotFoundError == "ValueError: Template type not found in standard responses"
NoneTableError == "TypeError: argument of type 'NoneType' is not iterable"

NameKey == <<"n", "a", "m", "e">>
PhoneKey == <<"p", "h", "o", "n", "e">>

TemplateTypes == {"customer_inquiry_response", "claim_denial_notification",
                  "unknown_template"}
Inquiries == { <<"W", "h", "y", "?">> }
CustomerDatas ==
    { <<>>,
      << <<NameKey, <<"J", "o">> >> >> }
CompanyInfos ==
    { <<>>,
      << <<PhoneKey, <<"5", "5", "5">> >> >> }
Tolerances == {"strict", "minimal", "moderate", "flexible", "lenient", "STRICT"}

NoArgs == [template_type |-> "", customer_inquiry |-> <<>>, customer_data |-> <<>>,
           company_info |-> <<>>, deviation_tolerance |-> ""]

\* the first threshold exclusive: < 10 instead of <= 10
ComplianceLevel_Exclusive(deviation_percentage, max_allowed) ==
    IF LtInt(deviation_percentage, 10) THEN "excellent"
    ELSE IF LeqInt(deviation_percentage, 25) THEN "good"
    ELSE IF LeqInt(deviation_percentage, max_allowed) THEN "acceptable"
    ELSE "warning"

\* the if/elif chain that determines the compliance level
ComplianceLevel(deviation_percentage, max_allowed) ==
    IF LeqInt(deviation_percentage, 10) THEN "excellent"
    ELSE IF LeqInt(deviation_percentage, 25) THEN "good"
    ELSE IF LeqInt(deviation_percentage, max_allowed) THEN "acceptable"
    ELSE "warning"

\* compliance decided by < instead of <=
Analyze_Exclusive(template_type, generated, standard, deviation_percentage, deviation_tolerance) ==
    LET max_allowed == get_deviation_tolerance_limit(deviation_tolerance)
    IN [generated_response |-> generated,
        standard_response |-> standard,
        deviation_percentage |-> deviation_percentage,
        max_allowed_deviation |-> max_allowed,
        is_compliant |-> LtInt(deviation_percentage, max_allowed),
        compliance_level |-> ComplianceLevel(deviation_percentage, max_allowed),
        template_type |-> template_type,
        deviation_tolerance |-> deviation_tolerance]

\* the analysis and the record generate_response returns
Analyze(template_type, generated, standard, deviation_percentage, deviation_tolerance) ==
    LET max_allowed == get_deviation_tolerance_limit(deviation_tolerance)
    IN [generated_response |-> generated,
        standard_response |-> standard,
        deviation_percentage |-> deviation_percentage,
        max_allowed_deviation |-> max_allowed,
        is_compliant |-> LeqInt(deviation_percentage, max_allowed),
        compliance_level |-> ComplianceLevel(deviation_percentage, max_allowed),
        template_type |-> template_type,
        deviation_tolerance |-> deviation_tolerance]

\* the membership test before the lookup left out: the subscript raises
PrepareFailure_KeyError(acc, tt) ==
    IF acc.raised # "" THEN acc.raised
    ELSE IF acc.value = NoneVal THEN NoneTableError
    ELSE IF tt \notin DictKeys(acc.value.doc) THEN "KeyError"
    ELSE ""

\* prepare_standard_response up to the lookup: the exception it raises for
\* the outcome acc of reading the standard_responses property and the key
\* tt, "" when it raises none
PrepareFailure(acc, tt) ==
    IF acc.raised # "" THEN acc.raised
    ELSE IF acc.value = NoneVal THEN NoneTableError
    ELSE IF tt \notin DictKeys(acc.value.doc) THEN TemplateNotFoundError
    ELSE ""

\* generate_response up to its first request: prepare_standard_response
\* reads the table through the standard_responses property, looks the key up
\* and renders the body
PrepareStandardResponse(tt, inq, cd, ci, tol) ==
    LET acc == Property("standard_responses")
        failure == PrepareFailure(acc, tt)
    IN /\ StoreAfter("standard_responses", acc)
       /\ args' = [template_type |-> tt, customer_inquiry |-> inq,
                   customer_data |-> cd, company_info |-> ci,
                   deviation_tolerance |-> tol]
       /\ calls' = <<>>
       /\ api' = <<>>
       /\ result' = <<>>
       /\ generated_response' = <<>>
       /\ IF failure # ""
          THEN /\ error' = failure
               /\ pc' = "failed"
               /\ standard_response' = <<>>
          ELSE /\ error' = ""
               /\ pc' = "personalize"
               /\ standard_response' = Render(DictGet(acc.value.doc, tt), cd, ci)

\* generate_response is called by a user of the ResponseProcessor
Prepare ==
    /\ pc = "idle"
    /\ \E tt \in TemplateTypes, inq \in Inquiries, cd \in CustomerDatas,
          ci \in CompanyInfos, tol \in Tolerances :
          PrepareStandardResponse(tt, inq, cd, ci, tol)
    /\ UNCHANGED <<renderVars, parseVars, orchVars>>

\* the exception swallowed: an empty text is returned
PersonalizeResult_Swallow(outcome) ==
    IF outcome.kind = "text"
    THEN [raised |-> "", text |-> Strip(outcome.content)]
    ELSE [raised |-> "", text |-> <<>>]

\* generate_personalized_response after the request: the stripped text, or
\* the re-raised exception when the request raised or carried no content
PersonalizeResult(outcome) ==
    IF outcome.kind = "text"
    THEN [raised |-> "", text |-> Strip(outcome.content)]
    ELSE [raised |-> GenerationError, text |-> <<>>]

\* the arguments generate_response passes to generate_personalized_response
PersonalizeCall(inquiry, standard, tolerance) ==
    [op |-> "generate_personalized_response",
     customer_inquiry |-> inquiry, standard_response |-> standard,
     generated_response |-> <<>>, deviation_tolerance |-> tolerance]

\* the two texts passed in the wrong order
ScoreCall_Swapped(generated, standard) ==
    [op |-> "calculate_deviation_percentage",
     customer_inquiry |-> <<>>, standard_response |-> generated,
     generated_response |-> standard, deviation_tolerance |-> ""]

\* the arguments generate_response passes to calculate_deviation_percentage
ScoreCall(generated, standard) ==
    [op |-> "calculate_deviation_percentage",
     customer_inquiry |-> <<>>, standard_response |-> standard,
     generated_response |-> generated, deviation_tolerance |-> ""]

\* generate_personalized_response: one request to the service
Personalize ==
    /\ pc = "personalize"
    /\ \E outcome \in Outcomes(PersonalizeTexts) :
          LET r == PersonalizeResult(outcome)
          IN /\ calls' = Append(calls,
                    [call |-> PersonalizeCall(args.customer_inquiry, standard_response,
                                              args.deviation_tolerance),
                     raised |-> r.raised, text |-> r.text, number |-> Zero])
             /\ api' = Append(api,
                    [kind |-> "personalize", outcome |-> outcome,
                     instruction |-> ToleranceConfig(args.deviation_tolerance).instruction])
             /\ IF r.raised = ""
                THEN /\ generated_response' = r.text
                     /\ pc' = "score"
                     /\ UNCHANGED error
                ELSE /\ error' = r.raised
                     /\ pc' = "failed"
                     /\ UNCHANGED generated_response
    /\ UNCHANGED <<args, standard_response, result, storeVars, renderVars, parseVars, orchVars>>

\* calculate_deviation_percentage, then the compliance analysis and the return
Score ==
    /\ pc = "score"
    /\ \E outcome \in Outcomes(ScoreTexts) :
          LET deviation_percentage == DeviationOf(outcome)
          IN /\ calls' = Append(calls,
                    [call |-> ScoreCall(generated_response, standard_response),
                     raised |-> "", text |-> <<>>, number |-> deviation_percentage])
             /\ api' = Append(api, [kind |-> "score", outcome |-> outcome,
                                    instruction |-> ""])
             /\ result' = << Analyze(args.template_type, generated_response,
                                     standard_response, deviation_percentage,
                                     args.deviation_tolerance) >>
    /\ pc' = "returned"
    /\ UNCHANGED <<args, standard_response, generated_response, error, storeVars, renderVars, parseVars, orchVars>>

\* generate_response hands the record or the exception to its caller, which
\* is then free to make the next request
Return ==
    /\ pc \in {"returned", "failed"}
    /\ pc' = "idle"
    /\ args' = NoArgs
    /\ standard_response' = <<>>
    /\ generated_response' = <<>>
    /\ calls' = <<>>
    /\ api' = <<>>
    /\ result' = <<>>
    /\ error' = ""
    /\ UNCHANGED <<storeVars, renderVars, parseVars, orchVars>>

\* the tables the pipeline reads
PipelineTables == {"standard_responses"}

InitPipe ==
    /\ pc = "idle"
    /\ args = NoArgs
    /\ standard_response = <<>>
    /\ generated_response = <<>>
    /\ calls = <<>>
    /\ api = <<>>
    /\ result = <<>>
    /\ error = ""

InitRender ==
    /\ rin = <<>>
    /\ rout = <<>>

InitParse ==
    /\ raw = <<>>
    /\ parsed = <<>>

Unset == "<unset>"
NoOutcome == [req |-> "", end |-> "", error |-> "", wrapped |-> FALSE,
              invocations |-> 0, requests |-> 0, steps |-> <<>>]

\* before CommunicationOrchestrator is constructed
InitOrch ==
    /\ orch = "none"
    /\ cred = [api_key |-> Unset, env |-> Unset]
    /\ req = ""
    /\ ui = <<>>
    /\ invocations = 0
    /\ ended = NoOutcome
    /\ cfgfailed = FALSE

Init ==
    /\ InitStore
    /\ \A t \in Tables \ PipelineTables : source[t].kind = "object"
    /\ InitPipe
    /\ InitRender
    /\ InitParse
    /\ InitOrch

Next ==
    \/ Prepare
    \/ Personalize
    \/ Score
    \/ Return
    \/ reload_configs
    \/ \E t \in PipelineTables : EditSource(t)

Spec == Init /\ [][Next]_vars

(***************************************************************************)
(* Properties of the pipeline, checked under Spec                          *)
(***************************************************************************)
StandardTable == cached["standard_responses"]
PersonalizeFailed(i) == api[i].kind = "personalize" /\ api[i].outcome.kind # "text"
PersonalizeSucceeded(i) == api[i].kind = "personalize" /\ api[i].outcome.kind = "text"
HasDigit(s) == \E i \in 1..Len(s) : s[i] \in Digits
ScoreDegraded(i) ==
    /\ api[i].kind = "score"
    /\ api[i].outcome.kind # "text" \/ ~HasDigit(api[i].outcome.content)

\* C1: a run whose template key is absent from the loaded standard-responses
\* table has failed with the template-not-found error, and no call to the
\* Generation Client and no request to the service has been made in it.
C1_UnknownTemplateFailsBeforeAnyCall ==
    (pc # "idle" /\ StandardTable.kind = "dict"
        /\ args.template_type \notin DictKeys(StandardTable.doc))
    => /\ pc = "failed"
       /\ error = TemplateNotFoundError
       /\ calls = <<>>
       /\ api = <<>>
       /\ result = <<>>

C1_Witness ==
    /\ pc = "failed"
    /\ error = TemplateNotFoundError
    /\ StandardTable.kind = "dict"
    /\ args.template_type \notin DictKeys(StandardTable.doc)

\* C2: a result exists only when the run has returned, and then exactly two
\* calls were made, Personalize first and ScoreDeviation second, each with one
\* request; ScoreDeviation received the text Personalize returned and the
\* standard text Personalize was given, and the result carries both.
C2_BothCallsInOrder ==
    /\ result # <<>> => pc = "returned"
    /\ pc = "returned" =>
          /\ Len(result) = 1
          /\ Len(calls) = 2
          /\ calls[1].call.op = "generate_personalized_response"
          /\ calls[2].call.op = "calculate_deviation_percentage"
          /\ calls[1].raised = ""
          /\ calls[2].call.generated_response = calls[1].text
          /\ calls[2].call.standard_response = calls[1].call.standard_response
          /\ calls[1].call.standard_response = standard_response
          /\ result[1].generated_response = calls[1].text
          /\ result[1].standard_response = standard_response
          /\ Len(api) = 2
          /\ api[1].kind = "personalize"
          /\ api[2].kind = "score"

C2_Witness ==
    /\ pc = "returned"
    /\ Len(calls) = 2
    /\ calls[1].text # <<>>
    /\ calls[1].text # standard_response

\* C3: when the request made by Personalize raises or carries no content, the
\* run has failed with the generation error, the template was looked up and
\* rendered, that request is the only one (no retry, no ScoreDeviation) and
\* there is no result and no generated text.
C3_PersonalizeFailureAborts ==
    \A i \in 1..Len(api) :
        PersonalizeFailed(i) =>
            /\ pc = "failed"
            /\ error = GenerationError
            /\ result = <<>>
            /\ generated_response = <<>>
            /\ Len(api) = 1
            /\ Len(calls) = 1
            /\ calls[1].call.op = "generate_personalized_response"
            /\ StandardTable.kind = "dict"
            /\ args.template_type \in DictKeys(StandardTable.doc)
            /\ standard_response =
                   Render(DictGet(StandardTable.doc, args.template_type),
                          args.customer_data, args.company_info)

C3_Witness ==
    /\ pc = "failed"
    /\ Len(api) = 1
    /\ api[1].kind = "personalize"
    /\ api[1].outcome.kind = "raises"
    /\ standard_response # <<>>

\* C4: no run fails after Personalize succeeded; a ScoreDeviation whose
\* request raised, carried no content or carried a text without a digit has
\* returned 0.0, and the run returned a result with deviation 0.0 that is
\* compliant and excellent, whatever the tolerance.
C4_ScoringNeverAborts ==
    /\ pc = "failed" => \A i \in 1..Len(api) : ~PersonalizeSucceeded(i)
    /\ \A i \in 1..Len(api) : api[i].kind = "score" => pc = "returned" /\ result # <<>>
    /\ \A i \in 1..Len(api) :
          ScoreDegraded(i) =>
              /\ calls[i].number.n = 0
              /\ result[1].deviation_percentage.n = 0
              /\ result[1].is_compliant
              /\ result[1].compliance_level = "excellent"

C4_Witness ==
    /\ pc = "returned"
    /\ Len(api) = 2
    /\ api[2].outcome.kind = "raises"
    /\ args.deviation_tolerance = "strict"
    /\ result[1].compliance_level = "excellent"

\* C5: the tier of every result is decided by the deviation and the ceiling
\* alone: excellent up to 10, else good up to 25, else acceptable up to the
\* ceiling, else warning; (8,25), (18,25), (40,50), (40,25) and (10,10) give
\* excellent, good, acceptable, warning and excellent.
C5_TierByThresholds ==
    pc = "returned" =>
        LET r == result[1]
            n == r.deviation_percentage.n
            d == r.deviation_percentage.d
            c == r.max_allowed_deviation
            Is(v, k) == n = v * d /\ c = k
        IN /\ r.compliance_level = "excellent" <=> n <= 10 * d
           /\ r.compliance_level = "good" <=> (n > 10 * d /\ n <= 25 * d)
           /\ r.compliance_level = "acceptable" <=> (n > 25 * d /\ n <= c * d)
           /\ r.compliance_level = "warning" <=> (n > 25 * d /\ n > c * d)
           /\ Is(8, 25) => r.compliance_level = "excellent"
           /\ Is(18, 25) => r.compliance_level = "good"
           /\ Is(40, 50) => r.compliance_level = "acceptable"
           /\ Is(40, 25) => r.compliance_level = "warning"
           /\ Is(10, 10) => r.compliance_level = "excellent"

C5_Witness ==
    /\ pc = "returned"
    /\ result[1].deviation_percentage = Float(40, 1)
    /\ result[1].max_allowed_deviation = 50
    /\ result[1].compliance_level = "acceptable"

\* C6: a result with deviation 11 under the ceiling 10 is in tier warning.
C6_StrictOverCeilingIsWarning ==
    (pc = "returned"
        /\ result[1].max_allowed_deviation = 10
        /\ result[1].deviation_percentage.n = 11 * result[1].deviation_percentage.d)
    => result[1].compliance_level = "warning"

\* C7: in every result the ceiling is the one of the requested tolerance (10,
\* 25, 50, 70, and 25 for an unrecognized key), the result is compliant
\* exactly when the deviation is at most the ceiling, and the deviation is the
\* number scoring returned, a reply of 150 staying 150.
C7_CeilingAndCompliance ==
    pc = "returned" =>
        LET r == result[1]
            tol == args.deviation_tolerance
            ceiling == CASE tol = "strict" -> 10
                         [] tol = "minimal" -> 25
                         [] tol = "moderate" -> 50
                         [] tol = "flexible" -> 70
                         [] OTHER -> 25
        IN /\ r.deviation_tolerance = tol
           /\ r.max_allowed_deviation = ceiling
           /\ r.is_compliant <=> r.deviation_percentage.n <= ceiling * r.deviation_percentage.d
           /\ r.deviation_percentage = calls[2].number
           /\ api[2].outcome = [kind |-> "text", content |-> <<"1", "5", "0">>]
                 => r.deviation_percentage = Float(150, 1)

C7_Witness ==
    /\ pc = "returned"
    /\ args.deviation_tolerance = "lenient"
    /\ result[1].deviation_percentage = Float(150, 1)
    /\ result[1].max_allowed_deviation = 25
    /\ ~result[1].is_compliant

\* C8: for every tolerance string the ceiling and the instruction used are
\* one row of the table strict 10, minimal 25, moderate 50, flexible 70, the
\* row of the key when the key is one of the four and the minimal row
\* otherwise.
C8_ToleranceLookupTotal ==
    Len(api) >= 1 =>
        LET tol == args.deviation_tolerance
            limit == get_deviation_tolerance_limit(tol)
            instruction == api[1].instruction
            Row(k, c, text) == limit = c /\ instruction = text
                                  /\ (tol = k \/ (k = "minimal" /\
                                        tol \notin {"strict", "minimal", "moderate", "flexible"}))
        IN /\ \/ Row("strict", 10, "Follow the standard response EXACTLY. Deviation should be less than 10%.")
              \/ Row("minimal", 25, "Follow the standard response closely. Deviation should be less than 25%.")
              \/ Row("moderate", 50, "Use the standard response as a strong guideline. Deviation should be less than 50%.")
              \/ Row("flexible", 70, "Use the standard response as a foundation. Deviation can be up to 70%.")
           /\ result # <<>> => result[1].max_allowed_deviation = limit

C8_Witness ==
    /\ pc = "returned"
    /\ args.deviation_tolerance = "STRICT"
    /\ result[1].max_allowed_deviation = 25
    /\ api[1].instruction = deviation_tolerance_settings["minimal"].instruction

(***************************************************************************)
(* The Template Store on its own: accesses, reloads and edits of the       *)
(* configuration files in any order                                        *)
(***************************************************************************)
InitStoreOnly ==
    /\ InitStore
    /\ InitPipe
    /\ InitRender
    /\ InitParse
    /\ InitOrch

NextStore ==
    \/ \E t \in Tables : Access(t)
    \/ reload_configs
    \/ \E t \in Tables : EditSource(t)

SpecStore == InitStoreOnly /\ [][NextStore]_vars

\* C9 as stated: between two reloads the source of each table is read at most
\* once and all accesses return one value.
C9_ReadAtMostOncePerInterval ==
    \A t \in Tables : reads[t] <= 1 /\ Cardinality(rets[t]) <= 1

\* C9: between two reloads each table is loaded from its source at most once,
\* on an access that finds nothing cached; from then on every access returns
\* the loaded table and the source is not read, whatever the file holds by
\* then; a read that fails or yields null caches nothing; reload_configs is
\* the only step that empties a cache and it empties all three.
C9_LoadedOnceUntilReload ==
    /\ [](\A t \in Tables :
            /\ loads[t] <= 1
            /\ cached[t] # NoneVal <=> loads[t] = 1
            /\ rets[t] \subseteq {NoneVal, cached[t]}
            /\ served[t] => cached[t] # NoneVal)
    /\ [][\A t \in Tables :
            /\ cached[t] # NoneVal /\ cached'[t] # NoneVal =>
                  cached'[t] = cached[t] /\ reads'[t] = reads[t]
            /\ cached[t] # NoneVal /\ cached'[t] = NoneVal =>
                  \A u \in Tables : cached'[u] = NoneVal /\ reads'[u] = 0 /\ loads'[u] = 0
            /\ cached[t] = NoneVal /\ cached'[t] # NoneVal =>
                  /\ source[t].kind = "object"
                  /\ cached'[t] = Dict(source[t].doc)
                  /\ reads'[t] = reads[t] + 1
            /\ cached[t] = NoneVal /\ reads'[t] = reads[t] + 1 /\ source[t].kind # "object" =>
                  cached'[t] = NoneVal]_vars

C9_Witness ==
    /\ cached["standard_responses"] = Dict(StandardResponsesA)
    /\ source["standard_responses"] = [kind |-> "object", doc |-> StandardResponsesB]
    /\ served["standard_responses"]
    /\ reads["standard_responses"] = 2
    /\ rets["standard_responses"] = {NoneVal, Dict(StandardResponsesA)}

(***************************************************************************)
(* The Placeholder Renderer on its own: one body and one pair of field     *)
(* sets, rendered and then rendered again from its own output              *)
(***************************************************************************)
BodyAlphabet == {"[", "]", "A"}
FieldKeys == { <<"a">>, <<"b">> }
FieldValues == { <<>>, <<"A">>, <<"[", "A", "]">>, <<"[", "B", "]">> }
Fields == {<<k, v>> : k \in FieldKeys, v \in FieldValues}

\* dicts of at most two entries, in every insertion order
RenderCustomerDatas ==
    { <<>> } \cup { <<f>> : f \in Fields }
        \cup { p \in [1..2 -> Fields] : p[1][1] # p[2][1] }
RenderCompanyInfos ==
    { <<>>, << << <<"b">>, <<"A">> >> >>, << << <<"a">>, <<"[", "B", "]">> >> >> }

InitStorePinned ==
    /\ source = [t \in Tables |->
                    [kind |-> "object", doc |-> CHOOSE d \in Documents(t) : TRUE]]
    /\ cached = [t \in Tables |-> NoneVal]
    /\ reads = [t \in Tables |-> 0]
    /\ loads = [t \in Tables |-> 0]
    /\ served = [t \in Tables |-> FALSE]
    /\ rets = [t \in Tables |-> {}]

InitRenderOnly ==
    /\ InitStorePinned
    /\ InitPipe
    /\ rin \in [body : SeqsUpTo(BodyAlphabet, MaxBodyLen),
                customer_data : RenderCustomerDatas,
                company_info : RenderCompanyInfos]
    /\ rout = <<>>
    /\ InitParse
    /\ InitOrch

\* prepare_standard_response on the body
RenderFirst ==
    /\ rout = <<>>
    /\ rout' = << Render(rin.body, rin.customer_data, rin.company_info) >>
    /\ UNCHANGED <<rin, storeVars, pipeVars, parseVars, orchVars>>

\* prepare_standard_response on the text the first call returned
RenderAgain ==
    /\ Len(rout) = 1
    /\ rout' = Append(rout, Render(rout[1], rin.customer_data, rin.company_info))
    /\ UNCHANGED <<rin, storeVars, pipeVars, parseVars, orchVars>>

NextRender ==
    \/ RenderFirst
    \/ RenderAgain

SpecRender == InitRenderOnly /\ [][NextRender]_vars

\* the placeholders of a text: "[", characters other than brackets, "]"
IsToken(s, i, j) ==
    /\ s[i] = "[" /\ s[j] = "]"
    /\ \A m \in (i + 1)..(j - 1) : s[m] \notin {"[", "]"}
Tokens(s) ==
    {SubSeq(s, p[1], p[2]) :
        p \in {q \in (1..Len(s)) \X (1..Len(s)) : q[1] < q[2] /\ IsToken(s, q[1], q[2])}}

SuppliedKeys == DictKeys(rin.customer_data) \cup DictKeys(rin.company_info)
SuppliedValues == {rin.customer_data[i][2] : i \in 1..Len(rin.customer_data)}
                     \cup {rin.company_info[i][2] : i \in 1..Len(rin.company_info)}

\* every placeholder of the body is the token of a supplied field
Covered == \A tok \in Tokens(rin.body) : \E k \in SuppliedKeys : tok = Placeholder(k)

\* the brackets of s form placeholders only: "[" and "]" alternate, starting
\* with "[" and ending with "]"
RECURSIVE FlatFrom(_, _, _)
FlatFrom(s, i, open) ==
    IF i > Len(s) THEN ~open
    ELSE IF s[i] = "[" THEN ~open /\ FlatFrom(s, i + 1, TRUE)
    ELSE IF s[i] = "]" THEN open /\ FlatFrom(s, i + 1, FALSE)
    ELSE FlatFrom(s, i + 1, open)
FlatBrackets(s) == FlatFrom(s, 1, FALSE)

BracketFree(s) == \A i \in 1..Len(s) : s[i] \notin {"[", "]"}

\* C10 as stated: with a field set that covers all placeholders of the body,
\* rendering the output of a render again returns it unchanged.
C10_RenderIdempotent ==
    (Len(rout) = 2 /\ Covered) => rout[2] = rout[1]

\* C10: with a field set that covers all placeholders of the body, no value
\* of which contains a square bracket, and a body whose square brackets only
\* form placeholders that are not nested, rendering the output of a render
\* again returns it unchanged.
C10_RenderIdempotentFlat ==
    (/\ Len(rout) = 2
     /\ Covered
     /\ FlatBrackets(rin.body)
     /\ \A v \in SuppliedValues : BracketFree(v))
    => rout[2] = rout[1]

C10_Witness ==
    /\ Len(rout) = 2
    /\ rin.body = <<"[", "A", "]", "A", "A">>
    /\ rin.customer_data = << << <<"b">>, <<>> >>, << <<"a">>, <<"A">> >> >>
    /\ rin.company_info = <<>>
    /\ rout[1] = <<"A", "A", "A">>
    /\ rout[2] = rout[1]

\* s contains sub
Contains(s, sub) == \E i \in 1..(Len(s) + 1) : MatchAt(s, i, sub)

SuppliedFields ==
    {rin.customer_data[i] : i \in 1..Len(rin.customer_data)}
        \cup {rin.company_info[i] : i \in 1..Len(rin.company_info)}

\* C11 as stated, in the case where no supplied value reintroduces bracket
\* syntax: after rendering, the token of every supplied field occurs nowhere
\* in the output.
C11_TokenGone ==
    (Len(rout) >= 1 /\ \A v \in SuppliedValues : BracketFree(v))
    => \A f \in SuppliedFields : ~Contains(rout[1], Placeholder(f[1]))

\* C11: when no supplied value contains a square bracket and the square
\* brackets of the body only form placeholders that are not nested, the token
\* of every supplied field occurs nowhere in the output: every occurrence in
\* the body was replaced, not only the first.
C11_TokenGoneFlat ==
    (/\ Len(rout) >= 1
     /\ FlatBrackets(rin.body)
     /\ \A v \in SuppliedValues : BracketFree(v))
    => \A f \in SuppliedFields : ~Contains(rout[1], Placeholder(f[1]))

C11_Witness ==
    /\ Len(rout) >= 1
    /\ rin.body = <<"[", "A", "]", "[", "A", "]">>
    /\ rin.customer_data = << << <<"a">>, <<"A">> >> >>
    /\ rin.company_info = <<>>
    /\ rout[1] = <<"A", "A">>

(***************************************************************************)
(* Score parsing on its own: one reply, parsed as                          *)
(* calculate_deviation_percentage parses it                                *)
(***************************************************************************)
ReplyAlphabet == {"1", "2", "5", ".", "x", " "}
ExampleReplies ==
    { <<"D", "e", "v", "i", "a", "t", "i", "o", "n", ":", " ", "7", "3", "%">>,
      <<"1", "2", ".", "5">>,
      <<"I", " ", "c", "a", "n", "n", "o", "t", " ", "d", "e", "t", "e", "r", "m",
        "i", "n", "e", " ", "t", "h", "i", "s", ".">> }

InitParseOnly ==
    /\ InitStorePinned
    /\ InitPipe
    /\ InitRender
    /\ raw \in SeqsUpTo(ReplyAlphabet, MaxReplyLen) \cup ExampleReplies
    /\ parsed = <<>>
    /\ InitOrch

\* the reply is stripped, searched for a number and converted
ParseReply ==
    /\ parsed = <<>>
    /\ parsed' = << DeviationOf([kind |-> "text", content |-> raw]) >>
    /\ UNCHANGED <<raw, storeVars, pipeVars, renderVars, orchVars>>

NextParse == ParseReply

SpecParse == InitParseOnly /\ [][NextParse]_vars

DigitOf == ("0" :> 0) @@ ("1" :> 1) @@ ("2" :> 2) @@ ("3" :> 3) @@ ("4" :> 4) @@
           ("5" :> 5) @@ ("6" :> 6) @@ ("7" :> 7) @@ ("8" :> 8) @@ ("9" :> 9)

\* the number written by the digits s[i..j], read from the left
RECURSIVE Numeral(_, _, _, _)
Numeral(s, i, j, acc) ==
    IF i > j THEN acc ELSE Numeral(s, i + 1, j, 10 * acc + DigitOf[s[i]])

\* ten to the number of digits of s[i..j]
Scale(s, i, j) == Numeral(s, i, j, 1) - Numeral(s, i, j, 0)

\* s[i..j] is a longest run of digits
DigitRun(s, i, j) ==
    /\ i <= j
    /\ \A m \in i..j : s[m] \in Digits
    /\ j = Len(s) \/ s[j + 1] \notin Digits

\* C12: the number returned is the value of the first numeric substring of
\* the reply, a run of digits with a dot and a further run of digits when
\* they follow, and 0.0 when the reply has no digit; what comes after that
\* substring has no influence; 73 from "Deviation: 73%", 12.5 from "12.5",
\* 0.0 from "I cannot determine this.".
C12_FirstNumberParsed ==
    parsed # <<>> =>
        LET s == raw
            p == parsed[1]
        IN /\ (\A m \in 1..Len(s) : s[m] \notin Digits) => p = Float(0, 1)
           /\ (\E m \in 1..Len(s) : s[m] \in Digits) =>
                 \E i, j \in 1..Len(s) :
                    /\ \A m \in 1..(i - 1) : s[m] \notin Digits
                    /\ DigitRun(s, i, j)
                    /\ IF j + 2 <= Len(s) /\ s[j + 1] = "." /\ s[j + 2] \in Digits
                       THEN \E k \in (j + 2)..Len(s) :
                               /\ DigitRun(s, j + 2, k)
                               /\ p.n * Scale(s, j + 2, k) =
                                     p.d * (Numeral(s, i, j, 0) * Scale(s, j + 2, k)
                                            + Numeral(s, j + 2, k, 0))
                       ELSE p.d = 1 /\ p.n = Numeral(s, i, j, 0)
           /\ s = <<"D", "e", "v", "i", "a", "t", "i", "o", "n", ":", " ", "7", "3", "%">>
                 => p = Float(73, 1)
           /\ s = <<"1", "2", ".", "5">> => p.n * 10 = 125 * p.d
           /\ Len(s) = 24 => p.n = 0

C12_Witness ==
    /\ raw = <<"5", ".", "2", "1">>
    /\ parsed = << Float(521, 100) >>

\* a later number in the reply is ignored
C12_WitnessLater ==
    /\ raw = <<"x", "5", " ", "2">>
    /\ parsed = << Float(5, 1) >>

(***************************************************************************)
(* Orchestrator and Interaction Shell: CommunicationOrchestrator and        *)
(* UserInterface.  Field dictionaries, whose keys become placeholders, are  *)
(* keyed by character sequences; tables and departments by strings.         *)
(***************************************************************************)
MissingCredentialError == "ValueError: OpenAI API key not found"
NoneAttributeError == "AttributeError: 'NoneType' object has no attribute"
ProfileKeyError == "KeyError: company_info"
ConfigErrors == {ConfigNotFoundError, ConfigParseError}

Falsy == {Unset, ""}

\* the credential is only looked at when a request is sent
EngineInitFailure_Lazy(api_key, env) == ""

\* CommunicationEngine.__init__: api_key or os.getenv("OPENAI_API_KEY"),
\* ValueError when neither is set
EngineInitFailure(api_key, env) ==
    LET key == IF api_key \notin Falsy THEN api_key ELSE env
    IN IF key \in Falsy THEN MissingCredentialError ELSE ""

ApiKeyParams == {Unset, "", "sk-param"}
EnvValues == {Unset, "", "sk-env"}

\* dict.get(k, default)
DictGetDefault(d, k, default) == IF k \in DictKeys(d) THEN DictGet(d, k) ELSE default

\* d[k] = v
DictSet(d, k, v) ==
    IF k \in DictKeys(d)
    THEN [i \in 1..Len(d) |-> IF d[i][1] = k THEN <<k, v>> ELSE d[i]]
    ELSE Append(d, <<k, v>>)

\* d.update(e)
RECURSIVE DictUpdate(_, _)
DictUpdate(d, e) ==
    IF e = <<>> THEN d ELSE DictUpdate(DictSet(d, e[1][1], e[1][2]), Tail(e))

\* config.get("departments", {})
Departments(config) == DictGetDefault(config, "departments", <<>>)

\* int(s) succeeds (for the texts typed here: digits only)
IsNumber(s) == Len(s) >= 1 /\ \A i \in 1..Len(s) : s[i] \in Digits
IntOf(s) == DigitsValue(s, 1, Len(s))

\* str.lower()
LowerStr(s) == [i \in 1..Len(s) |-> Lower(s[i])]

\* ConfigManager.get_department_info on the loaded company profile
get_department_info(config, department_key) ==
    LET base_info ==
            << <<K_company_name, DictGetDefault(config, "company_name", <<"O", "u", "r", " ", "C", "o", "m", "p", "a", "n", "y">>)>>,
               <<K_company_type, DictGetDefault(config, "company_type", <<"O", "r", "g", "a", "n", "i", "z", "a", "t", "i", "o", "n">>)>>,
               <<K_company_address, DictGetDefault(config, "company_address", <<>>)>>,
               <<K_company_website, DictGetDefault(config, "company_website", <<>>)>>,
               <<K_company_phone, DictGetDefault(config, "company_phone", <<>>)>>,
               <<K_company_email, DictGetDefault(config, "company_email", <<>>)>> >>
        departments == Departments(config)
    IN IF department_key \in DictKeys(departments)
       THEN DictUpdate(base_info, DictGet(departments, department_key))
       ELSE DictUpdate(base_info,
                << <<K_department, <<"C", "u", "s", "t", "o", "m", "e", "r", " ", "S", "e", "r", "v", "i", "c", "e">>>>,
                   <<K_representative_name, <<"C", "u", "s", "t", "o", "m", "e", "r", " ", "S", "e", "r", "v", "i", "c", "e", " ", "T", "e", "a", "m">>>>,
                   <<K_contact_phone, DictGet(base_info, K_company_phone)>>,
                   <<K_contact_email, DictGet(base_info, K_company_email)>>,
                   <<K_hours, <<"B", "u", "s", "i", "n", "e", "s", "s", " ", "h", "o", "u", "r", "s">>>> >>)

\* UserInterface.select_department: the key chosen for what was typed; the
\* prompt is only shown when the profile lists departments
select_department(departments, typed) ==
    LET dept_choice == Strip(typed)
    IN IF departments # <<>> /\ IsNumber(dept_choice)
          /\ IntOf(dept_choice) - 1 >= 0 /\ IntOf(dept_choice) - 1 < Len(departments)
       THEN departments[IntOf(dept_choice)][1]
       ELSE "customer_service"

\* display_company_profile and display_response_result subscript these keys
ProfileFailure(company_info) ==
    IF {K_company_name, K_department, K_contact_phone, K_contact_email}
           \subseteq DictKeys(company_info)
    THEN "" ELSE ProfileKeyError
ResultDisplayFailure(company_info) ==
    IF {K_company_name, K_department, K_representative_name, K_contact_phone,
        K_contact_email} \subseteq DictKeys(company_info)
    THEN "" ELSE ProfileKeyError

\* the characters of the template names
TemplateChars ==
    [customer_inquiry_response |-> <<"c", "u", "s", "t", "o", "m", "e", "r", "_", "i", "n", "q", "u", "i", "r", "y", "_", "r", "e", "s", "p", "o", "n", "s", "e">>,
     claim_denial_notification |-> <<"c", "l", "a", "i", "m", "_", "d", "e", "n", "i", "a", "l", "_", "n", "o", "t", "i", "f", "i", "c", "a", "t", "i", "o", "n">>]

NoTemplate == "<None>"

\* UserInterface.select_template on the keys of the templates table:
\* 'exit' in any case gives (None, -1), a number in range the template at
\* that place, a name the template called name_response, all else (None, -2)
select_template(templates, typed) ==
    LET user_input == Strip(typed)
        name == Replace(LowerStr(user_input), <<" ">>, <<"_">>) \o <<"_", "r", "e", "s", "p", "o", "n", "s", "e">>
    IN IF LowerStr(user_input) = <<"e", "x", "i", "t">>
       THEN [template |-> NoTemplate, index |-> -1]
       ELSE IF IsNumber(user_input)
       THEN IF IntOf(user_input) - 1 >= 0 /\ IntOf(user_input) - 1 < Len(templates)
            THEN [template |-> templates[IntOf(user_input)][1],
                  index |-> IntOf(user_input) - 1]
            ELSE [template |-> NoTemplate, index |-> -2]
       ELSE IF \E i \in 1..Len(templates) : TemplateChars[templates[i][1]] = name
       THEN LET i == CHOOSE j \in 1..Len(templates) :
                        TemplateChars[templates[j][1]] = name
            IN [template |-> templates[i][1], index |-> i - 1]
       ELSE [template |-> NoTemplate, index |-> -2]

\* the empty text is passed on as the inquiry
get_customer_inquiry_NoCheck(typed) == [none |-> FALSE, text |-> Strip(typed)]

\* UserInterface.get_customer_inquiry: None when nothing but blanks was typed
get_customer_inquiry(typed) ==
    IF Strip(typed) = <<>> THEN [none |-> TRUE, text |-> <<>>]
    ELSE [none |-> FALSE, text |-> Strip(typed)]

\* UserInterface.select_deviation_tolerance
select_deviation_tolerance(typed) ==
    LET tolerance_choice == Strip(typed)
    IN IF tolerance_choice = <<"1">> THEN "strict"
       ELSE IF tolerance_choice = <<"2">> THEN "minimal"
       ELSE IF tolerance_choice = <<"3">> THEN "moderate"
       ELSE IF tolerance_choice = <<"4">> THEN "flexible"
       ELSE "minimal"

\* ResponseProcessor.get_template_fields
template_fields ==
    << <<"customer_inquiry_response",
         << <<"c", "u", "s", "t", "o", "m", "e", "r", "_", "n", "a", "m", "e">>,
            <<"a", "c", "c", "o", "u", "n", "t", "_", "n", "u", "m", "b", "e", "r">> >> >>,
      <<"complaint_resolution_letter",
         << <<"c", "u", "s", "t", "o", "m", "e", "r", "_", "n", "a", "m", "e">>,
            <<"c", "o", "m", "p", "l", "a", "i", "n", "t", "_", "n", "u", "m", "b", "e", "r">> >> >>,
      <<"policy_cancellation_response",
         << <<"c", "u", "s", "t", "o", "m", "e", "r", "_", "n", "a", "m", "e">>,
            <<"p", "o", "l", "i", "c", "y", "_", "n", "u", "m", "b", "e", "r">>,
            <<"p", "o", "l", "i", "c", "y", "_", "t", "y", "p", "e">>,
            <<"e", "f", "f", "e", "c", "t", "i", "v", "e", "_", "d", "a", "t", "e">>,
            <<"r", "e", "f", "u", "n", "d", "_", "a", "m", "o", "u", "n", "t">> >> >>,
      <<"claim_processing_update",
         << <<"c", "u", "s", "t", "o", "m", "e", "r", "_", "n", "a", "m", "e">>,
            <<"c", "l", "a", "i", "m", "_", "n", "u", "m", "b", "e", "r">>,
            <<"p", "o", "l", "i", "c", "y", "_", "n", "u", "m", "b", "e", "r">>,
            <<"i", "n", "c", "i", "d", "e", "n", "t", "_", "d", "a", "t", "e">>,
            <<"c", "l", "a", "i", "m", "_", "s", "t", "a", "t", "u", "s">>,
            <<"n", "e", "x", "t", "_", "s", "t", "e", "p", "s">> >> >>,
      <<"claim_approval_notification",
         << <<"c", "u", "s", "t", "o", "m", "e", "r", "_", "n", "a", "m", "e">>,
            <<"c", "l", "a", "i", "m", "_", "n", "u", "m", "b", "e", "r">>,
            <<"a", "p", "p", "r", "o", "v", "e", "d", "_", "a", "m", "o", "u", "n", "t">>,
            <<"p", "a", "y", "m", "e", "n", "t", "_", "d", "a", "t", "e">>,
            <<"s", "e", "t", "t", "l", "e", "m", "e", "n", "t", "_", "d", "e", "t", "a", "i", "l", "s">> >> >>,
      <<"claim_denial_notification",
         << <<"c", "u", "s", "t", "o", "m", "e", "r", "_", "n", "a", "m", "e">>,
            <<"c", "l", "a", "i", "m", "_", "n", "u", "m", "b", "e", "r">>,
            <<"p", "o", "l", "i", "c", "y", "_", "n", "u", "m", "b", "e", "r">>,
            <<"d", "e", "n", "i", "a", "l", "_", "r", "e", "a", "s", "o", "n">>,
            <<"p", "o", "l", "i", "c", "y", "_", "s", "e", "c", "t", "i", "o", "n">>,
            <<"a", "p", "p", "e", "a", "l", "_", "p", "r", "o", "c", "e", "s", "s">> >> >>,
      <<"billing_inquiry_response",
         << <<"c", "u", "s", "t", "o", "m", "e", "r", "_", "n", "a", "m", "e">>,
            <<"a", "c", "c", "o", "u", "n", "t", "_", "n", "u", "m", "b", "e", "r">>,
            <<"b", "i", "l", "l", "i", "n", "g", "_", "p", "e", "r", "i", "o", "d">>,
            <<"a", "m", "o", "u", "n", "t", "_", "d", "u", "e">>,
            <<"d", "u", "e", "_", "d", "a", "t", "e">>,
            <<"p", "a", "y", "m", "e", "n", "t", "_", "m", "e", "t", "h", "o", "d", "s">> >> >>,
      <<"premium_adjustment_notice",
         << <<"c", "u", "s", "t", "o", "m", "e", "r", "_", "n", "a", "m", "e">>,
            <<"p", "o", "l", "i", "c", "y", "_", "n", "u", "m", "b", "e", "r">>,
            <<"c", "u", "r", "r", "e", "n", "t", "_", "p", "r", "e", "m", "i", "u", "m">>,
            <<"n", "e", "w", "_", "p", "r", "e", "m", "i", "u", "m">>,
            <<"e", "f", "f", "e", "c", "t", "i", "v", "e", "_", "d", "a", "t", "e">>,
            <<"i", "n", "c", "r", "e", "a", "s", "e", "_", "r", "e", "a", "s", "o", "n">> >> >>,
      <<"coverage_modification_notice",
         << <<"c", "u", "s", "t", "o", "m", "e", "r", "_", "n", "a", "m", "e">>,
            <<"p", "o", "l", "i", "c", "y", "_", "n", "u", "m", "b", "e", "r">>,
            <<"c", "o", "v", "e", "r", "a", "g", "e", "_", "c", "h", "a", "n", "g", "e", "s">>,
            <<"e", "f", "f", "e", "c", "t", "i", "v", "e", "_", "d", "a", "t", "e">>,
            <<"p", "r", "e", "m", "i", "u", "m", "_", "i", "m", "p", "a", "c", "t">> >> >>,
      <<"new_customer_welcome",
         << <<"c", "u", "s", "t", "o", "m", "e", "r", "_", "n", "a", "m", "e">>,
            <<"p", "o", "l", "i", "c", "y", "_", "n", "u", "m", "b", "e", "r">>,
            <<"a", "g", "e", "n", "t", "_", "n", "a", "m", "e">>,
            <<"a", "g", "e", "n", "t", "_", "c", "o", "n", "t", "a", "c", "t">>,
            <<"c", "o", "v", "e", "r", "a", "g", "e", "_", "s", "u", "m", "m", "a", "r", "y">>,
            <<"i", "m", "p", "o", "r", "t", "a", "n", "t", "_", "d", "a", "t", "e", "s">> >> >> >>
get_template_fields(template_type) == DictGetDefault(template_fields, template_type, <<>>)

\* UserInterface.collect_customer_data: one prompt per field, the bracketed
\* field name where nothing was typed
collect_customer_data(fields, typed) ==
    [i \in 1..Len(fields) |->
        <<fields[i],
          IF Strip(typed[i]) # <<>> THEN Strip(typed[i])
          ELSE <<"[">> \o Title(Replace(fields[i], <<"_">>, <<" ">>)) \o <<"]">> >>]

\* what is typed at the prompts
DepartmentInputs == { <<>>, <<"1">>, <<" ", "2">> }
TemplateInputs ==
    { <<>>, <<"1">>, <<"2">>, <<"9">>, <<"e", "x", "i", "t">>, <<" ", "E", "X", "I", "T", " ">>, <<"C", "u", "s", "t", "o", "m", "e", "r", " ", "I", "n", "q", "u", "i", "r", "y">>,
      <<"b", "o", "g", "u", "s">> }
InquiryInputs == { <<" ">>, <<" ", "W", "h", "y", "?", " ">> }
ToleranceInputs == { <<"1">>, <<"x">> }
FieldInputs == { <<>>, <<" ", "J", "o", " ">> }
\* one text per field: the same text for all, or nothing for the first only
CollectInputs(n) ==
    {[i \in 1..n |-> v] : v \in FieldInputs}
        \cup {[i \in 1..n |-> IF i = 1 THEN <<>> ELSE <<"J", "o">>]}

\* the arguments of generate_single_response
SingleCustomerDatas == {NoneVal} \cup {Dict(cd) : cd \in CustomerDatas \ {<<>>}}
SingleDepartments == {"customer_service", "billing"}
SingleTolerances == {"strict"}

\* CommunicationOrchestrator.__init__: a fresh ConfigManager, then the
\* CommunicationEngine, whose ValueError leaves no orchestrator behind
Construct ==
    /\ pc = "idle"
    /\ orch \in {"none", "failed"}
    /\ \E api_key \in ApiKeyParams, env \in EnvValues :
          /\ cred' = [api_key |-> api_key, env |-> env]
          /\ orch' = IF EngineInitFailure(api_key, env) = "" THEN "ready" ELSE "failed"
    /\ cached' = [t \in Tables |-> NoneVal]
    /\ UNCHANGED <<source, reads, loads, served, rets, pipeVars, renderVars, parseVars,
                   req, ui, invocations, ended, cfgfailed>>

\* the names of the prompts answered
Steps(trace) == [i \in 1..Len(trace) |-> trace[i].step]

\* the request r is over: the locals are gone, what is left is how it ended,
\* after the prompts of trace, n calls of generate_response and Len(api)
\* requests to the service
OrchEnd(r, kind, err, wrapped, n, trace) ==
    /\ pc' = "idle"
    /\ req' = ""
    /\ ui' = <<>>
    /\ args' = NoArgs
    /\ standard_response' = <<>>
    /\ generated_response' = <<>>
    /\ calls' = <<>>
    /\ api' = <<>>
    /\ result' = <<>>
    /\ error' = ""
    /\ ended' = [req |-> r, end |-> kind, error |-> err, wrapped |-> wrapped,
                 invocations |-> n, requests |-> Len(api), steps |-> Steps(trace)]
    /\ cfgfailed' = (cfgfailed \/ err \in ConfigErrors)

\* the request r goes on at the next statement
OrchContinue(r, next, newargs, trace) ==
    /\ pc' = next
    /\ ui' = trace
    /\ req' = r
    /\ args' = newargs
    /\ ended' = NoOutcome
    /\ UNCHANGED <<standard_response, generated_response, calls, api, result, error,
                   cfgfailed>>

\* the exception of using a property as a dict: the loader's or, for a file
\* holding null, the AttributeError of None
TableFailure(acc) ==
    IF acc.raised # "" THEN acc.raised
    ELSE IF acc.value = NoneVal THEN NoneAttributeError
    ELSE ""

\* run: display_welcome and select_department, which lists the departments
\* of the company profile and prompts when there are any
RunSelectDepartment ==
    /\ pc = "idle"
    /\ orch = "ready"
    /\ \A t \in Tables : reads[t] < MaxReads
    /\ \E typed \in DepartmentInputs :
          LET acc == Property("company_config")
              failure == TableFailure(acc)
              departments == IF failure = "" THEN Departments(acc.value.doc) ELSE <<>>
              selected_dept == select_department(departments, typed)
          IN /\ departments = <<>> => typed = <<>>
             /\ StoreAfter("company_config", acc)
             /\ invocations' = 0
             /\ IF failure # ""
                THEN OrchEnd("run", "error", failure, FALSE, 0, <<>>)
                ELSE OrchContinue("run", "run_department_info", NoArgs,
                        << [step |-> "select_department", typed |-> typed,
                            value |-> selected_dept] >>)
    /\ UNCHANGED <<orch, cred, renderVars, parseVars>>

\* run: get_department_info and display_company_profile
RunDepartmentInfo ==
    /\ pc = "run_department_info"
    /\ LET acc == Property("company_config")
           failure == TableFailure(acc)
           company_info == IF failure = ""
                           THEN get_department_info(acc.value.doc, ui[1].value)
                           ELSE <<>>
           shown == IF failure # "" THEN failure ELSE ProfileFailure(company_info)
       IN /\ StoreAfter("company_config", acc)
          /\ IF shown # ""
             THEN OrchEnd("run", "error", shown, FALSE, invocations, ui)
             ELSE OrchContinue("run", "run_select_template",
                               [args EXCEPT !.company_info = company_info], ui)
    /\ UNCHANGED <<orch, cred, invocations, renderVars, parseVars>>

\* run: select_template, which lists the keys of the templates table and
\* prompts; 'exit' and an invalid choice end the run
RunSelectTemplate ==
    /\ pc = "run_select_template"
    /\ \E typed \in TemplateInputs :
          LET acc == Property("templates")
              failure == TableFailure(acc)
              selected == IF failure = "" THEN select_template(acc.value.doc, typed)
                          ELSE [template |-> NoTemplate, index |-> -2]
              trace == Append(ui, [step |-> "select_template", typed |-> typed,
                                   value |-> selected.template])
          IN /\ failure # "" => typed = <<>>
             /\ StoreAfter("templates", acc)
             /\ IF failure # ""
                THEN OrchEnd("run", "error", failure, FALSE, invocations, ui)
                ELSE IF selected.template = NoTemplate
                THEN OrchEnd("run", IF selected.index = -1 THEN "exit" ELSE "invalid",
                             "", FALSE, invocations, trace)
                ELSE OrchContinue("run", "run_inquiry",
                        [args EXCEPT !.template_type = selected.template], trace)
    /\ UNCHANGED <<orch, cred, invocations, renderVars, parseVars>>

\* run: get_customer_inquiry; no inquiry ends the run
RunInquiry ==
    /\ pc = "run_inquiry"
    /\ \E typed \in InquiryInputs :
          LET customer_inquiry == get_customer_inquiry(typed)
              trace == Append(ui, [step |-> "get_customer_inquiry", typed |-> typed,
                                   value |-> customer_inquiry.text])
          IN IF customer_inquiry.none
             THEN OrchEnd("run", "no_inquiry", "", FALSE, invocations, trace)
             ELSE OrchContinue("run", "run_tolerance",
                     [args EXCEPT !.customer_inquiry = customer_inquiry.text], trace)
    /\ UNCHANGED <<orch, cred, invocations, storeVars, renderVars, parseVars>>

\* run: select_deviation_tolerance
RunTolerance ==
    /\ pc = "run_tolerance"
    /\ \E typed \in ToleranceInputs :
          OrchContinue("run", "run_collect",
              [args EXCEPT !.deviation_tolerance = select_deviation_tolerance(typed)],
              Append(ui, [step |-> "select_deviation_tolerance", typed |-> typed,
                          value |-> select_deviation_tolerance(typed)]))
    /\ UNCHANGED <<orch, cred, invocations, storeVars, renderVars, parseVars>>

\* run: get_template_fields and collect_customer_data
RunCollect ==
    /\ pc = "run_collect"
    /\ LET fields == get_template_fields(args.template_type)
       IN \E typed \in CollectInputs(Len(fields)) :
             LET customer_data == collect_customer_data(fields, typed)
             IN OrchContinue("run", "generate",
                    [args EXCEPT !.customer_data = customer_data],
                    Append(ui, [step |-> "collect_customer_data", typed |-> typed,
                                value |-> customer_data]))
    /\ UNCHANGED <<orch, cred, invocations, storeVars, renderVars, parseVars>>

\* run: Ctrl-C at one of the prompts that follow no file access
Interrupt ==
    /\ pc \in {"run_inquiry", "run_tolerance"}
    /\ OrchEnd("run", "cancelled", "", FALSE, invocations, ui)
    /\ UNCHANGED <<orch, cred, invocations, storeVars, renderVars, parseVars>>

\* generate_single_response up to its call of generate_response:
\* get_department_info on the company profile
SingleDepartmentInfo ==
    /\ pc = "idle"
    /\ orch = "ready"
    /\ \A t \in Tables : reads[t] < MaxReads
    /\ \E tt \in TemplateTypes, inq \in Inquiries, cd \in SingleCustomerDatas,
          department \in SingleDepartments, tol \in SingleTolerances :
          LET acc == Property("company_config")
              failure == TableFailure(acc)
          IN /\ StoreAfter("company_config", acc)
             /\ IF failure # ""
                THEN OrchEnd("generate_single_response", "raised", failure, TRUE, 0, <<>>)
                ELSE OrchContinue("generate_single_response", "generate",
                        [template_type |-> tt, customer_inquiry |-> inq,
                         customer_data |-> IF cd = NoneVal \/ cd.doc = <<>> THEN <<>> ELSE cd.doc,
                         company_info |-> get_department_info(acc.value.doc, department),
                         deviation_tolerance |-> tol], <<>>)
    /\ invocations' = 0
    /\ UNCHANGED <<orch, cred, renderVars, parseVars>>

\* either entry point calls generate_response with what it gathered
Generate ==
    /\ pc = "generate"
    /\ PrepareStandardResponse(args.template_type, args.customer_inquiry,
                               args.customer_data, args.company_info,
                               args.deviation_tolerance)
    /\ invocations' = invocations + 1
    /\ UNCHANGED <<orch, cred, req, ui, ended, cfgfailed, renderVars, parseVars>>

\* generate_response is back: run displays the result or, in its handler,
\* the error; generate_single_response returns the result or raises the
\* error wrapped
Finish ==
    /\ pc \in {"returned", "failed"}
    /\ req # ""
    /\ LET shown == ResultDisplayFailure(args.company_info)
       IN IF req = "run"
          THEN IF pc = "failed" THEN OrchEnd(req, "error", error, FALSE, invocations, ui)
               ELSE IF shown # "" THEN OrchEnd(req, "error", shown, FALSE, invocations, ui)
               ELSE OrchEnd(req, "result", "", FALSE, invocations, ui)
          ELSE IF pc = "failed" THEN OrchEnd(req, "raised", error, TRUE, invocations, ui)
               ELSE OrchEnd(req, "result", "", FALSE, invocations, ui)
    /\ UNCHANGED <<orch, cred, invocations, storeVars, renderVars, parseVars>>

\* the documents of a deployment whose company profile lists departments
Deployed(t) ==
    IF t = "standard_responses" THEN {StandardResponsesA}
    ELSE IF t = "templates" THEN {TemplatesA}
    ELSE {CompanyConfigB}

\* what a configuration file of that deployment can be
DeployedContents(t) ==
    {[kind |-> k, doc |-> <<>>] : k \in {"missing", "malformed", "null"}}
        \cup {[kind |-> "object", doc |-> d] : d \in Deployed(t)}

\* somebody puts a proper document where a configuration file was missing
\* or unusable
RepairSource(t) ==
    /\ pc = "idle"
    /\ source[t].kind # "object"
    /\ \E d \in Deployed(t) : source' = [source EXCEPT ![t] = [kind |-> "object", doc |-> d]]
    /\ UNCHANGED <<cached, reads, loads, served, rets, pipeVars, renderVars, parseVars,
                   orchVars>>

\* the process starts with at most one configuration file out of order
InitOrchestrated ==
    /\ source \in [Tables -> UNION {DeployedContents(t) : t \in Tables}]
    /\ \A t \in Tables : source[t] \in DeployedContents(t)
    /\ Cardinality({t \in Tables : source[t].kind # "object"}) <= 1
    /\ cached = [t \in Tables |-> NoneVal]
    /\ reads = [t \in Tables |-> 0]
    /\ loads = [t \in Tables |-> 0]
    /\ served = [t \in Tables |-> FALSE]
    /\ rets = [t \in Tables |-> {}]
    /\ InitPipe
    /\ InitRender
    /\ InitParse
    /\ InitOrch

NextOrch ==
    \/ Construct
    \/ RunSelectDepartment
    \/ RunDepartmentInfo
    \/ RunSelectTemplate
    \/ RunInquiry
    \/ RunTolerance
    \/ RunCollect
    \/ Interrupt
    \/ SingleDepartmentInfo
    \/ Generate
    \/ Personalize
    \/ Score
    \/ Finish
    \/ \E t \in Tables : RepairSource(t)

SpecOrch == InitOrchestrated /\ [][NextOrch]_vars

(***************************************************************************)
(* Claims about the orchestrator, checked under SpecOrch                    *)
(***************************************************************************)
\* the table the statement at pc reads first
NeededTable ==
    [idle |-> "company_config", run_department_info |-> "company_config",
     run_select_template |-> "templates", generate |-> "standard_responses"]

LoadError(content) ==
    IF content.kind = "missing" THEN ConfigNotFoundError ELSE ConfigParseError

\* a step of a request that has to load a table whose file is missing or
\* malformed
LoadFails ==
    /\ orch = "ready"
    /\ source' = source
    /\ pc \in DOMAIN NeededTable
    /\ cached[NeededTable[pc]] = NoneVal
    /\ source[NeededTable[pc]].kind \in {"missing", "malformed"}

\* C13: a missing credential (neither the parameter nor the environment
\* variable set) makes construction fail, and without a constructed
\* orchestrator no request runs and no call is made; a request step that has
\* to load a missing or malformed configuration file ends the request in
\* that error with no call to the service made, in run as in
\* generate_single_response; a request that ended in a configuration error
\* made no call; and the orchestrator stays usable for later requests.
C13_ConfigErrorsBeforeAnyCall ==
    /\ [](/\ (cred.api_key \in Falsy /\ cred.env \in Falsy) => (orch # "ready")
          /\ (orch # "ready") =>
                (/\ pc = "idle" /\ req = "" /\ invocations = 0
                 /\ calls = <<>> /\ api = <<>> /\ ended = NoOutcome)
          /\ (pc = "failed" /\ error \in ConfigErrors) => (calls = <<>> /\ api = <<>>)
          /\ (ended.error \in ConfigErrors) =>
                (/\ ended.end \in {"error", "raised"}
                 /\ ended.requests = 0
                 /\ orch = "ready"))
    /\ [][/\ LoadFails =>
                (/\ api = <<>> /\ api' = <<>> /\ calls' = <<>>
                 /\ \/ pc' = "failed" /\ error' = LoadError(source[NeededTable[pc]])
                    \/ /\ pc' = "idle"
                       /\ ended'.end \in {"error", "raised"}
                       /\ ended'.error = LoadError(source[NeededTable[pc]]))
          /\ (orch = "ready") => (orch' = "ready")]_vars

\* a request is served, with both calls made, after an earlier request ended
\* in a configuration error
C13_Witness ==
    /\ cfgfailed
    /\ orch = "ready"
    /\ ended.end = "result"
    /\ ended.requests = 2

FiveSteps ==
    <<"select_department", "select_template", "get_customer_inquiry",
      "select_deviation_tolerance", "collect_customer_data">>

\* C14: a run calls generate_response at most once, and once only after the
\* five prompts in their order; a run that displays a result has called it
\* exactly once; before that call no request has gone to the service; no run
\* goes on after 'exit', an invalid template or an empty inquiry, and a run
\* ended by one of these has made no pipeline call and no request.
C14_RunCallsPipelineOnce ==
    /\ invocations <= 1
    /\ ended.invocations <= 1
    /\ (req = "run" /\ invocations = 1) => Steps(ui) = FiveSteps
    /\ (req = "run" /\ pc \in {"personalize", "score", "returned", "failed"})
          => invocations = 1
    /\ (req = "run" /\ invocations = 0) => (calls = <<>> /\ api = <<>>)
    /\ (ended.req = "run" /\ ended.invocations = 1) => ended.steps = FiveSteps
    /\ (ended.req = "run" /\ ended.end = "result") => ended.invocations = 1
    /\ (ended.req = "run" /\ ended.end \in {"exit", "invalid", "no_inquiry"})
          => (ended.invocations = 0 /\ ended.requests = 0)
    /\ \A i \in 1..Len(ui) :
          /\ ui[i].step = "select_template" =>
                /\ LowerStr(Strip(ui[i].typed)) # <<"e", "x", "i", "t">>
                /\ ui[i].value # NoTemplate
          /\ ui[i].step = "get_customer_inquiry" => Strip(ui[i].typed) # <<>>

\* a run that went through the five prompts, called the pipeline once and
\* displayed the result
C14_Witness ==
    /\ ended.req = "run"
    /\ ended.end = "result"
    /\ ended.invocations = 1
    /\ ended.requests = 2
    /\ ended.steps = FiveSteps

\* a run ended by 'exit'
C14_WitnessExit ==
    /\ ended.req = "run"
    /\ ended.end = "exit"
    /\ ended.steps = <<"select_department", "select_template">>

(***************************************************************************)
(* Flag and tier of the returned record, checked under Spec                 *)
(***************************************************************************)
\* C15: in every returned record is_compliant is false exactly when
\* compliance_level is warning.
C15_FlagAndTierAgree ==
    pc = "returned" =>
        (~result[1].is_compliant <=> result[1].compliance_level = "warning")

====
